---- MODULE Spec2Model ----
(***************************************************************************)
(* A model of package env (src/env.go): an EnvSet holding declared         *)
(* variables (formal), observed variables (actual), the list being parsed  *)
(* (environment), an error handling policy and an output sink.             *)
(*                                                                         *)
(* Texts (names, value texts, list entries) are sequences of one-character *)
(* strings, so that strings.Cut, strings.Contains and the strconv parsers  *)
(* are computed on the characters.                                         *)
(***************************************************************************)
EXTENDS Integers, Sequences, FiniteSets, TLC

\* ------------------------------------------------------------------ bounds
\* longest list handed to Parse
MaxLen == 2

\* ------------------------------------------------------------------ texts
T_true == <<"t", "r", "u", "e">>
T_false == <<"f", "a", "l", "s", "e">>
T_HELP == <<"H", "E", "L", "P">>
T_H == <<"H">>
T_MaxInt64 == <<"9","2","2","3","3","7","2","0","3","6","8","5","4","7","7","5","8","0","7">>
T_MinInt64Mag == <<"9","2","2","3","3","7","2","0","3","6","8","5","4","7","7","5","8","0","8">>

\* the entries of the lists handed to Parse
Entries ==
    { <<"A", "=", "1">>,                \* a value bool and int accept
      <<"A", "=", "0">>,
      <<"A">>,                          \* no '=': the empty value
      <<"B", "=", "1", "=", "B">>,      \* a value containing '='
      <<"H">>,                          \* a help trigger without '='
      <<"H", "E", "L", "P", "=", "1">> }

RECURSIVE SeqsUpTo(_, _)
SeqsUpTo(S, n) ==
    IF n = 0 THEN { <<>> }
    ELSE LET shorter == SeqsUpTo(S, n - 1)
         IN  shorter \cup { Append(s, x) : s \in { t \in shorter : Len(t) = n - 1 }, x \in S }

Lists == SeqsUpTo(Entries, MaxLen)

\* first index of character c in s, 0 when absent
RECURSIVE IndexFrom(_, _, _)
IndexFrom(s, c, i) ==
    IF i > Len(s) THEN 0
    ELSE IF s[i] = c THEN i
    ELSE IndexFrom(s, c, i + 1)

Contains(s, c) == IndexFrom(s, c, 1) # 0

\* strings.Cut(s, "="): the text before and after the first '='
CutFirst(s, i) ==
    IF i = 0 THEN [before |-> s, after |-> <<>>, found |-> FALSE]
    ELSE [before |-> SubSeq(s, 1, i - 1), after |-> SubSeq(s, i + 1, Len(s)), found |-> TRUE]

\* last index of character c in s, 0 when absent
LastIndex(s, c) ==
    IF \E i \in 1..Len(s) : s[i] = c
    THEN CHOOSE i \in 1..Len(s) : s[i] = c /\ \A j \in (i + 1)..Len(s) : s[j] # c
    ELSE 0

\* a cut at the last '=' of the text
CutAtLast(s) == CutFirst(s, LastIndex(s, "="))

Cut(s) == CutFirst(s, IndexFrom(s, "=", 1))

\* ------------------------------------------------------------------ strconv
\* the error results of a Value's Set
NoErr == [err |-> "nil"]
errParse == [err |-> "parse error"]
errRange == [err |-> "value out of range"]
ErrSyntax == [err |-> "strconv: invalid syntax"]
ErrRangeConv == [err |-> "strconv: value out of range"]

\* numError that reports every failure as a parse failure
numErrorAlwaysParse(err) == errParse

\* numError maps the strconv errors to errParse and errRange
numError(err) ==
    IF err = ErrSyntax THEN errParse
    ELSE IF err = ErrRangeConv THEN errRange
    ELSE err

\* strconv.ParseBool as called by boolValue.Set
ParseBool(s) ==
    IF s \in { <<"1">>, <<"t">>, <<"T">>, <<"T","R","U","E">>, T_true, <<"T","r","u","e">> }
    THEN [v |-> TRUE, err |-> NoErr]
    ELSE IF s \in { <<"0">>, <<"f">>, <<"F">>, <<"F","A","L","S","E">>, T_false, <<"F","a","l","s","e">> }
    THEN [v |-> FALSE, err |-> NoErr]
    ELSE [v |-> FALSE, err |-> ErrSyntax]

FormatBool(b) == IF b THEN T_true ELSE T_false

DigitVal(c) ==
    CASE c = "0" -> 0 [] c = "1" -> 1 [] c = "2" -> 2 [] c = "3" -> 3 [] c = "4" -> 4
      [] c = "5" -> 5 [] c = "6" -> 6 [] c = "7" -> 7 [] c = "8" -> 8 [] c = "9" -> 9
      [] c \in {"a", "A"} -> 10 [] c \in {"b", "B"} -> 11 [] c \in {"c", "C"} -> 12
      [] c \in {"d", "D"} -> 13 [] c \in {"e", "E"} -> 14 [] c \in {"f", "F"} -> 15
      [] OTHER -> 99

DigitChar(d) == <<"0", "1", "2", "3", "4", "5", "6", "7", "8", "9">>[d + 1]

RECURSIVE StripZeros(_)
StripZeros(s) ==
    IF Len(s) > 0 /\ s[1] = "0" THEN StripZeros(Tail(s)) ELSE s

\* a <= b for two digit texts without leading zeros, in the same base
RECURSIVE DigitsLeq(_, _)
DigitsLeq(a, b) ==
    IF Len(a) # Len(b) THEN Len(a) < Len(b)
    ELSE IF Len(a) = 0 THEN TRUE
    ELSE IF DigitVal(a[1]) # DigitVal(b[1]) THEN DigitVal(a[1]) < DigitVal(b[1])
    ELSE DigitsLeq(Tail(a), Tail(b))

RECURSIVE Accumulate(_, _, _)
Accumulate(s, base, n) ==
    IF Len(s) = 0 THEN n ELSE Accumulate(Tail(s), base, n * base + DigitVal(s[1]))

\* the base and the digits of a text parsed with base argument 0
BasePrefix(s) ==
    IF Len(s) > 0 /\ s[1] = "0"
    THEN IF Len(s) >= 3 /\ s[2] \in {"b", "B"} THEN [base |-> 2, digits |-> SubSeq(s, 3, Len(s))]
         ELSE IF Len(s) >= 3 /\ s[2] \in {"o", "O"} THEN [base |-> 8, digits |-> SubSeq(s, 3, Len(s))]
         ELSE IF Len(s) >= 3 /\ s[2] \in {"x", "X"} THEN [base |-> 16, digits |-> SubSeq(s, 3, Len(s))]
         ELSE [base |-> 8, digits |-> Tail(s)]
    ELSE [base |-> 10, digits |-> s]

\* An integer stored in a cell: n is the value; sat = 1 and sat = -1 stand for
\* the largest and the smallest 64-bit value, which strconv returns with a
\* range error.
IntOf(n) == [n |-> n, sat |-> 0]
MaxInt64 == [n |-> 0, sat |-> 1]
MinInt64 == [n |-> 0, sat |-> -1]

\* strconv.ParseInt(s, 0, 64) as called by intValue.Set and int64Value.Set.
\* Decimal texts of any length are classified exactly; the value of an
\* in-range text is computed for texts of at most 9 significant digits.
ParseIntMag(neg, p) ==
    LET sig == StripZeros(p.digits)
        bad == \E i \in 1..Len(p.digits) : DigitVal(p.digits[i]) >= p.base
        limit == IF neg THEN T_MinInt64Mag ELSE T_MaxInt64
    IN  IF bad THEN [v |-> IntOf(0), err |-> ErrSyntax]
        ELSE IF p.base = 10 /\ ~DigitsLeq(sig, limit)
        THEN [v |-> IF neg THEN MinInt64 ELSE MaxInt64, err |-> ErrRangeConv]
        ELSE IF p.base = 10 /\ sig = limit
        THEN [v |-> IF neg THEN MinInt64 ELSE MaxInt64, err |-> NoErr]
        ELSE [v |-> IntOf((IF neg THEN -1 ELSE 1) * Accumulate(sig, p.base, 0)), err |-> NoErr]

ParseInt(s) ==
    LET neg == Len(s) > 0 /\ s[1] = "-"
        rest == IF Len(s) > 0 /\ s[1] \in {"+", "-"} THEN Tail(s) ELSE s
    IN  IF Len(rest) = 0 THEN [v |-> IntOf(0), err |-> ErrSyntax]
        ELSE ParseIntMag(neg, BasePrefix(rest))

RECURSIVE DecDigits(_)
DecDigits(n) ==
    IF n < 10 THEN <<DigitChar(n)>> ELSE Append(DecDigits(n \div 10), DigitChar(n % 10))

\* strconv.Itoa as called by intValue.String
Itoa(v) ==
    IF v.sat = 1 THEN T_MaxInt64
    ELSE IF v.sat = -1 THEN <<"-">> \o T_MinInt64Mag
    ELSE IF v.n < 0 THEN <<"-">> \o DecDigits(-v.n)
    ELSE DecDigits(v.n)

T_MaxUint64 == <<"1","8","4","4","6","7","4","4","0","7","3","7","0","9","5","5","1","6","1","5">>
\* the largest 64-bit unsigned value, which strconv returns with a range error
MaxUint64 == [n |-> 0, sat |-> 2]

\* strconv.ParseUint(s, 0, 64) as called by uintValue.Set and uint64Value.Set:
\* no sign is accepted. Classified and computed as ParseInt is.
ParseUint(s) ==
    IF Len(s) = 0 THEN [v |-> IntOf(0), err |-> ErrSyntax]
    ELSE LET p == BasePrefix(s)
             sig == StripZeros(p.digits)
             bad == \E i \in 1..Len(p.digits) : DigitVal(p.digits[i]) >= p.base
         IN  IF bad THEN [v |-> IntOf(0), err |-> ErrSyntax]
             ELSE IF p.base = 10 /\ ~DigitsLeq(sig, T_MaxUint64)
             THEN [v |-> MaxUint64, err |-> ErrRangeConv]
             ELSE IF p.base = 10 /\ sig = T_MaxUint64
             THEN [v |-> MaxUint64, err |-> NoErr]
             ELSE [v |-> IntOf(Accumulate(sig, p.base, 0)), err |-> NoErr]

\* strconv.FormatUint(v, 10) as called by uintValue.String and uint64Value.String
FormatUint(v) == IF v.sat = 2 THEN T_MaxUint64 ELSE DecDigits(v.n)

\* ------------------------------------------------------------------ strconv, floats
\* A float64 is held as strconv holds a decimal: a sign, the significant
\* digits d1 d2 ... dn without leading or trailing zeros, and the position dp
\* of the decimal point, the value being 0.d1d2...dn * 10^dp. Zero has no
\* digits. This is exact for texts of at most 15 significant digits, which a
\* float64 holds and renders back unchanged, and for the longer texts made
\* of the digit 9 only (16 to 22 of them), whose nearest float64 is the next
\* power of ten. Infinity and NaN spellings are not among the texts.
Digits == {"0", "1", "2", "3", "4", "5", "6", "7", "8", "9"}
IsDigits(s) == \A i \in 1..Len(s) : s[i] \in Digits
Zeros(n) == [i \in 1..n |-> "0"]

RECURSIVE StripTrailingZeros(_)
StripTrailingZeros(s) ==
    IF Len(s) > 0 /\ s[Len(s)] = "0" THEN StripTrailingZeros(SubSeq(s, 1, Len(s) - 1)) ELSE s

FloatZero == [neg |-> FALSE, digits |-> <<>>, dp |-> 0]

\* the float64 nearest to 0.digits * 10^dp
RoundFloat(neg, digits, dp) ==
    IF Len(digits) = 0 THEN FloatZero
    ELSE IF Len(digits) > 15 /\ \A i \in 1..Len(digits) : digits[i] = "9"
    THEN [neg |-> neg, digits |-> <<"1">>, dp |-> dp + 1]
    ELSE [neg |-> neg, digits |-> digits, dp |-> dp]

\* the exponent part of a float text: a sign and digits
ParseExponent(s) ==
    LET neg == Len(s) > 0 /\ s[1] = "-"
        rest == IF Len(s) > 0 /\ s[1] \in {"+", "-"} THEN Tail(s) ELSE s
    IN  IF Len(rest) = 0 \/ ~IsDigits(rest) THEN [ok |-> FALSE, e |-> 0]
        ELSE [ok |-> TRUE, e |-> (IF neg THEN -1 ELSE 1) * Accumulate(StripZeros(rest), 10, 0)]

\* strconv.ParseFloat(s, 64) as called by float64Value.Set
ParseFloat(s) ==
    LET neg == Len(s) > 0 /\ s[1] = "-"
        body == IF Len(s) > 0 /\ s[1] \in {"+", "-"} THEN Tail(s) ELSE s
        ei == IF IndexFrom(body, "e", 1) # 0 THEN IndexFrom(body, "e", 1) ELSE IndexFrom(body, "E", 1)
        mant == IF ei = 0 THEN body ELSE SubSeq(body, 1, ei - 1)
        ex == IF ei = 0 THEN [ok |-> TRUE, e |-> 0] ELSE ParseExponent(SubSeq(body, ei + 1, Len(body)))
        pi == IndexFrom(mant, ".", 1)
        int == IF pi = 0 THEN mant ELSE SubSeq(mant, 1, pi - 1)
        frac == IF pi = 0 THEN <<>> ELSE SubSeq(mant, pi + 1, Len(mant))
        all == int \o frac
        lead == Len(all) - Len(StripZeros(all))
        v == RoundFloat(neg, StripTrailingZeros(StripZeros(all)), Len(int) - lead + ex.e)
    IN  IF Len(all) = 0 \/ ~IsDigits(all) \/ ~ex.ok THEN [v |-> FloatZero, err |-> ErrSyntax]
        ELSE IF v.digits # <<>> /\ v.dp - 1 > 308 THEN [v |-> v, err |-> ErrRangeConv]
        ELSE [v |-> v, err |-> NoErr]

\* %e with the shortest digits: d.ddde+XX
FmtE(v) ==
    LET e == v.dp - 1
        mag == IF e < 0 THEN -e ELSE e
    IN  <<v.digits[1]>> \o (IF Len(v.digits) > 1 THEN <<".">> \o Tail(v.digits) ELSE <<>>)
        \o <<"e", IF e < 0 THEN "-" ELSE "+">>
        \o (IF mag < 10 THEN <<"0">> ELSE <<>>) \o DecDigits(mag)

\* %f with the shortest digits
FmtF(v) ==
    LET nd == Len(v.digits)
        int == IF v.dp <= 0 THEN <<"0">>
               ELSE IF nd >= v.dp THEN SubSeq(v.digits, 1, v.dp)
               ELSE v.digits \o Zeros(v.dp - nd)
        prec == IF nd > v.dp THEN nd - v.dp ELSE 0
        frac == [i \in 1..prec |-> IF v.dp + i >= 1 /\ v.dp + i <= nd THEN v.digits[v.dp + i] ELSE "0"]
    IN  int \o (IF prec > 0 THEN <<".">> \o frac ELSE <<>>)

\* strconv.FormatFloat(v, 'g', -1, 64) as called by float64Value.String: %e
\* when the exponent is below -4 or at least 6, %f otherwise
FormatFloat(v) ==
    IF v.digits = <<>> THEN <<"0">>
    ELSE (IF v.neg THEN <<"-">> ELSE <<>>)
         \o (IF v.dp - 1 < -4 \/ v.dp - 1 >= 6 THEN FmtE(v) ELSE FmtF(v))

\* ------------------------------------------------------------------ time
\* A time.Duration is held in whole seconds. time.ParseDuration is computed
\* for texts whose components are whole numbers of hours, minutes and
\* seconds; any other unit, a fraction or a missing unit is an error here,
\* as the last is in time.ParseDuration.
UnitSeconds(u) ==
    CASE u = <<"h">> -> 3600 [] u = <<"m">> -> 60 [] u = <<"s">> -> 1 [] OTHER -> 0

RECURSIVE LeadingWhile(_, _)
\* how many leading characters of s are (digit = TRUE) digits, or
\* (digit = FALSE) neither digits nor '.'
LeadingWhile(s, digit) ==
    IF Len(s) = 0 THEN 0
    ELSE IF digit /\ s[1] \in Digits THEN 1 + LeadingWhile(Tail(s), digit)
    ELSE IF ~digit /\ s[1] \notin Digits \cup {"."} THEN 1 + LeadingWhile(Tail(s), digit)
    ELSE 0

RECURSIVE DurationScan(_, _)
DurationScan(s, acc) ==
    IF Len(s) = 0 THEN [v |-> acc, ok |-> TRUE]
    ELSE LET nd == LeadingWhile(s, TRUE)
             rest == SubSeq(s, nd + 1, Len(s))
             nu == LeadingWhile(rest, FALSE)
             unit == SubSeq(rest, 1, nu)
         IN  IF nd = 0 \/ UnitSeconds(unit) = 0 THEN [v |-> 0, ok |-> FALSE]
             ELSE DurationScan(SubSeq(rest, nu + 1, Len(rest)),
                               acc + Accumulate(StripZeros(SubSeq(s, 1, nd)), 10, 0) * UnitSeconds(unit))

\* time.ParseDuration as called by durationValue.Set
ParseDuration(s) ==
    LET neg == Len(s) > 0 /\ s[1] = "-"
        body == IF Len(s) > 0 /\ s[1] \in {"+", "-"} THEN Tail(s) ELSE s
    IN  IF body = <<"0">> THEN [v |-> 0, ok |-> TRUE]
        ELSE IF Len(body) = 0 THEN [v |-> 0, ok |-> FALSE]
        ELSE LET r == DurationScan(body, 0)
             IN  [v |-> IF neg THEN -r.v ELSE r.v, ok |-> r.ok]

\* a rendering of the seconds as a number without a unit
DurationStringBare(d) == DecDigits(d)

\* time.Duration.String as called by durationValue.String
DurationString(d) ==
    LET mag == IF d < 0 THEN -d ELSE d
        h == mag \div 3600
        m == (mag % 3600) \div 60
        s == mag % 60
    IN  (IF d < 0 THEN <<"-">> ELSE <<>>)
        \o (IF h > 0 THEN DecDigits(h) \o <<"h">> ELSE <<>>)
        \o (IF h > 0 \/ m > 0 THEN DecDigits(m) \o <<"m">> ELSE <<>>)
        \o DecDigits(s) \o <<"s">>

\* ------------------------------------------------------------------ Value
\* The kinds of Value of this model: *boolValue, *intValue, *int64Value,
\* *uintValue, *uint64Value, *stringValue, *float64Value, *durationValue,
\* funcValue and boolFuncValue. A Value of the pointer kinds is a pointer to the
\* caller's storage cell. A Value of the two function kinds is the caller's
\* callback: its cell holds the closure, which is the callback fn and the text
\* the callback keeps in its captured variable (got).
Kinds == {"bool", "int", "int64", "uint", "uint64", "string", "float64", "duration",
          "func", "boolfunc"}

\* the callbacks of the callers of this model: "accept" keeps every text and
\* returns nil, "nonempty" returns an error of its own for the empty text
Callbacks == {"accept", "nonempty"}
errCallback == [err |-> "callback: empty value"]
Closure(fn) == [fn |-> fn, got |-> <<>>]

\* callbacks that call e.Parse on the registry they are declared in and return
\* what it returns: func(string) error { return e.Parse(list) }
ParsingCallbacks == {"parse nothing", "parse A=0", "parse A"}
ParsedBy(fn) ==
    CASE fn = "parse nothing" -> <<>>
      [] fn = "parse A=0" -> << <<"A", "=", "0">> >>
      [] fn = "parse A" -> << <<"A">> >>

\* the zero value of the storage type of a kind
Zero(kind) ==
    CASE kind = "bool" -> FALSE
      [] kind = "int" -> IntOf(0)
      [] kind = "string" -> <<>>
      [] kind \in {"int64", "uint", "uint64"} -> IntOf(0)
      [] kind = "float64" -> FloatZero
      [] kind = "duration" -> 0
      [] kind \in {"func", "boolfunc"} -> Closure("nil")
      [] kind = "custom" -> [inner |-> "nil", text |-> <<>>]

\* boolValue.Set: the parsed value is stored whether or not parsing failed
boolValueSet(s) ==
    [v |-> ParseBool(s).v,
     err |-> IF ParseBool(s).err # NoErr THEN errParse ELSE NoErr]

\* intValue.Set: the parsed value is stored whether or not parsing failed
intValueSet(s) ==
    [v |-> ParseInt(s).v,
     err |-> IF ParseInt(s).err # NoErr THEN numError(ParseInt(s).err) ELSE NoErr]

\* stringValue.Set
stringValueSet(s) == [v |-> s, err |-> NoErr]

\* int64Value.Set: as intValue.Set, strconv.IntSize being 64
int64ValueSet(s) ==
    [v |-> ParseInt(s).v,
     err |-> IF ParseInt(s).err # NoErr THEN numError(ParseInt(s).err) ELSE NoErr]

\* uintValue.Set and uint64Value.Set: the parsed value is stored whether or
\* not parsing failed
uintValueSet(s) ==
    [v |-> ParseUint(s).v,
     err |-> IF ParseUint(s).err # NoErr THEN numError(ParseUint(s).err) ELSE NoErr]

uint64ValueSet(s) ==
    [v |-> ParseUint(s).v,
     err |-> IF ParseUint(s).err # NoErr THEN numError(ParseUint(s).err) ELSE NoErr]

\* float64Value.Set: the cell keeps its value (old) when parsing failed
float64ValueSet(old, s) ==
    IF ParseFloat(s).err # NoErr THEN [v |-> old, err |-> numError(ParseFloat(s).err)]
    ELSE [v |-> ParseFloat(s).v, err |-> NoErr]

\* durationValue.Set: every failure is errParse, and the cell keeps its value
durationValueSet(old, s) ==
    IF ~ParseDuration(s).ok THEN [v |-> old, err |-> errParse]
    ELSE [v |-> ParseDuration(s).v, err |-> NoErr]

\* funcValue.Set and boolFuncValue.Set: f(s), f being the closure in the cell
funcValueSet(closure, s) ==
    IF closure.fn = "nonempty" /\ s = <<>> THEN [v |-> closure, err |-> errCallback]
    ELSE [v |-> [closure EXCEPT !.got = s], err |-> NoErr]

\* textValue.Set: p.UnmarshalText(s), the caller's type keeping the text it is
\* given; textValue.String is p.MarshalText(), that text
textValueSet(old, s) == [v |-> [old EXCEPT !.text = s], err |-> NoErr]

\* A Value of the caller's own, handed to Var: a pointer to a struct that
\* keeps the text behind an inner pointer. Set allocates the inner text;
\* String reads through the inner pointer and panics when it is nil, as it is
\* in the zero struct.
CustomValue(text) == [inner |-> "set", text |-> text]
customValueSet(s) == [v |-> CustomValue(s), err |-> NoErr]
StringPanics(kind, v) == kind = "custom" /\ v.inner = "nil"

\* Value.Set, dispatched on the concrete kind: the value written to the cell
\* and the error returned
ValueSet(kind, s) ==
    CASE kind = "bool" -> boolValueSet(s)
      [] kind = "int" -> intValueSet(s)
      [] kind = "string" -> stringValueSet(s)

\* Value.String, dispatched on the concrete kind
ValueString(kind, v) ==
    CASE kind = "bool" -> FormatBool(v)
      [] kind = "int" -> Itoa(v)
      [] kind = "string" -> v
      [] kind = "int64" -> Itoa(v)
      [] kind \in {"uint", "uint64"} -> FormatUint(v)
      [] kind = "float64" -> FormatFloat(v)
      [] kind = "duration" -> DurationString(v)
      [] kind \in {"func", "boolfunc"} -> <<>>
      [] kind = "text" -> v.text
      [] kind = "custom" -> v.text

\* ------------------------------------------------------------------ EnvSet
VARIABLES
    formal,         \* e.formal: name -> Spec, every variable declared
    actual,         \* e.actual: name -> Spec, the variables that were set
    store,          \* the caller's storage cells, store[p] is the value of *p
    environment,    \* e.environment: the entries not yet consumed
    errorHandling,  \* e.errorHandling
    Usage,          \* e.Usage: "nil" or a callback of the caller
    flagUsage,      \* f.Usage of the companion flag.FlagSet f, as a closure
    parsed,         \* e.parsed
    output,         \* the lines the current operation wrote to e.Output()
    halt,           \* how the process ended: none, os.Exit(code) or panic(value)
    pc,             \* where the caller is: "idle", in the loop of "Parse", or at its "return"
    err,            \* the local err of Parse: what the last parseOne returned
    ret,            \* the error Parse returns
    consumed,       \* the entries the Parse call has taken from its list
    setCalls,       \* the Set calls of the Parse call: <<name, value>>
    usageCalls,     \* how often the Parse call ran e.usage()
    before,         \* store and actual as they were when the Parse call began
    declared        \* the declaration calls made so far, in order

vars == <<formal, actual, store, environment, errorHandling, Usage, flagUsage, parsed, output,
          halt, pc, err, ret, consumed, setCalls, usageCalls, before, declared>>

ContinueOnError == 0
ExitOnError == 1
PanicOnError == 2

\* the policies NewEnvSet is called with
Policies == {ContinueOnError, ExitOnError, PanicOnError}

ErrHelp == [err |-> "env: help requested"]
NoReturn == [err |-> "no return yet"]

Running == [how |-> "none"]
Exited(code) == [how |-> "exit", code |-> code]
Panicked(value) == [how |-> "panic", value |-> value]

EmptyMap == [n \in {} |-> 0]
NoSnapshot == [store |-> <<>>, actual |-> EmptyMap, formal |-> EmptyMap, list |-> <<>>]
MapPut(m, k, v) == [n \in DOMAIN m \cup {k} |-> IF n = k THEN v ELSE m[n]]

\* ------------------------------------------------------------------ sorting
\* the characters of the model in byte order, as strings.Compare orders them
Alphabet == <<"0", "1", "2", "3", "4", "5", "6", "7", "8", "9", "=",
              "A", "B", "E", "H", "L", "P", "U">>
Ord(c) == CHOOSE i \in 1..Len(Alphabet) : Alphabet[i] = c

\* strings.Compare(a, b) < 0
RECURSIVE Less(_, _)
Less(a, b) ==
    IF Len(b) = 0 THEN FALSE
    ELSE IF Len(a) = 0 THEN TRUE
    ELSE IF a[1] # b[1] THEN Ord(a[1]) < Ord(b[1])
    ELSE Less(Tail(a), Tail(b))

\* sortVariables with the comparison reversed
RECURSIVE sortVariablesDescending(_)
sortVariablesDescending(m) ==
    IF DOMAIN m = {} THEN <<>>
    ELSE LET greatest == CHOOSE n \in DOMAIN m : \A o \in DOMAIN m \ {n} : Less(o, n)
         IN  <<m[greatest]>> \o sortVariablesDescending([n \in DOMAIN m \ {greatest} |-> m[n]])

\* sortVariables: the Specs of a map in lexicographical order of name
RECURSIVE sortVariables(_)
sortVariables(m) ==
    IF DOMAIN m = {} THEN <<>>
    ELSE LET least == CHOOSE n \in DOMAIN m : \A o \in DOMAIN m \ {n} : Less(n, o)
         IN  <<m[least]>> \o sortVariables([n \in DOMAIN m \ {least} |-> m[n]])

\* VisitAll and Visit: the Specs handed to the visitor, in order
VisitAll == sortVariables(formal)
Visit == sortVariables(actual)

\* ------------------------------------------------------------------ usage
\* the fixed guess of UnquoteUsage for a Value's concrete kind
TypeGuess(kind) ==
    CASE kind = "bool" -> "boolean"
      [] kind = "int" -> "int"
      [] kind = "string" -> "string"
      [] kind = "int64" -> "int"
      [] kind \in {"uint", "uint64"} -> "uint"
      [] kind = "float64" -> "float"
      [] kind = "duration" -> "duration"
      [] OTHER -> "value"

\* the back quote character of a description (written ^ here: a TLA+ string
\* cannot hold the back quote itself)
BackQuote == "^"

\* UnquoteUsage that leaves the two back quotes in the description
UnquoteUsageKeepsQuotes(spec) ==
    LET d == spec.Description
        i == IndexFrom(d, BackQuote, 1)
        j == IF i = 0 THEN 0 ELSE IndexFrom(d, BackQuote, i + 1)
    IN  IF j # 0
        THEN [name |-> SubSeq(d, i + 1, j - 1), description |-> d]
        ELSE [name |-> TypeGuess(spec.Kind), description |-> d]

\* UnquoteUsage: the back-quoted name of a description and the description
\* without the two back quotes, or the guess for the kind
UnquoteUsage(spec) ==
    LET d == spec.Description
        i == IndexFrom(d, BackQuote, 1)
        j == IF i = 0 THEN 0 ELSE IndexFrom(d, BackQuote, i + 1)
    IN  IF j # 0
        THEN [name |-> SubSeq(d, i + 1, j - 1),
              description |-> SubSeq(d, 1, i - 1) \o SubSeq(d, i + 1, j - 1) \o SubSeq(d, j + 1, Len(d))]
        ELSE [name |-> TypeGuess(spec.Kind), description |-> d]

\* isZeroValue, its error result: String() of the zero Value panicked and the
\* deferred recover turned the panic into an error
isZeroValueErr(spec) == StringPanics(spec.Kind, Zero(spec.Kind))

\* isZeroValue asked of the variable's current value instead of the text given
isZeroValueLive(spec, value) ==
    ValueString(spec.Kind, store[spec.Cell]) = ValueString(spec.Kind, Zero(spec.Kind))

\* isZeroValue: does the text equal String() of a zero Value of the Spec's kind
isZeroValue(spec, value) == value = ValueString(spec.Kind, Zero(spec.Kind))

\* the line PrintDefaults writes for one Spec
DefaultsLine(spec) ==
    [line |-> "variable",
     name |-> spec.Name,
     type |-> UnquoteUsage(spec).name,
     usage |-> UnquoteUsage(spec).description,
     default |-> IF isZeroValueErr(spec) \/ isZeroValue(spec, spec.DefValue)
                 THEN <<>> ELSE <<spec.DefValue>>,
     quoted |-> ~isZeroValueErr(spec) /\ ~isZeroValue(spec, spec.DefValue)
                /\ spec.Kind = "string"]

\* the error isZeroValue returns for a Spec whose zero Value panics
ZeroValueErrLine(spec) == [line |-> "panic calling String method on zero", name |-> spec.Name]

\* isZeroValueErrs of PrintDefaults after the visit: the errors in visit order
RECURSIVE isZeroValueErrs(_)
isZeroValueErrs(specs) ==
    IF Len(specs) = 0 THEN <<>>
    ELSE (IF isZeroValueErr(Head(specs)) THEN <<ZeroValueErrLine(Head(specs))>> ELSE <<>>)
         \o isZeroValueErrs(Tail(specs))

\* PrintDefaults that stops the listing at the first Spec whose zero Value
\* panics and reports it there
RECURSIVE PrintDefaultsOfAborting(_)
PrintDefaultsOfAborting(specs) ==
    IF Len(specs) = 0 THEN <<>>
    ELSE IF isZeroValueErr(Head(specs)) THEN <<ZeroValueErrLine(Head(specs))>>
    ELSE <<DefaultsLine(Head(specs))>> \o PrintDefaultsOfAborting(Tail(specs))

\* PrintDefaults over the Specs visited: one line for each, then, when some
\* zero Value panicked, an empty line and the errors
PrintDefaultsOf(specs) ==
    [i \in 1..Len(specs) |-> DefaultsLine(specs[i])]
    \o (IF isZeroValueErrs(specs) = <<>> THEN <<>>
        ELSE <<[line |-> ""]>> \o isZeroValueErrs(specs))

\* PrintDefaults: the declared variables in VisitAll's order
PrintDefaults == PrintDefaultsOf(VisitAll)

\* defaultEnvironment: the heading and the defaults
defaultEnvironment == <<[line |-> "Environment:"]>> \o PrintDefaults

\* e.usage(): what the usage renderer writes, e.Usage when set and the default
\* listing otherwise
usage ==
    IF Usage = "nil" THEN defaultEnvironment ELSE <<[line |-> "Usage callback"]>>

\* failf that runs the usage renderer before it prints the message
failfLinesUsageFirst(value, name, cause) ==
    usage \o <<[line |-> "invalid value", value |-> value, name |-> name, cause |-> cause.err]>>

\* failf: the message line, then the usage; the error carries the message
failfLines(value, name, cause) ==
    <<[line |-> "invalid value", value |-> value, name |-> name, cause |-> cause.err]>> \o usage

failfError(value, name, cause) ==
    [err |-> "invalid value", value |-> value, name |-> name, cause |-> cause.err]

\* ------------------------------------------------------------------ declarations
\* the declarations a program makes: kind, name, default value, description
Declarations ==
    { [kind |-> "int", name |-> <<"A">>, value |-> IntOf(7), description |-> <<"a", " ", "^", "n", "^">>],
      [kind |-> "bool", name |-> <<"A">>, value |-> TRUE, description |-> <<"a">>],
      [kind |-> "string", name |-> <<"B">>, value |-> <<>>, description |-> <<"b">>],
      [kind |-> "bool", name |-> T_HELP, value |-> FALSE, description |-> <<"h">>],
      [kind |-> "string", name |-> <<"A", "=", "B">>, value |-> <<"x">>, description |-> <<"a">>] }

\* *p = v that writes every cell there is
WriteCellAll(st, p, v) ==
    IF p > Len(st) THEN Append(st, v) ELSE [i \in DOMAIN st |-> v]

\* *p = v, p being a cell of the store or the next cell to allocate
WriteCell(st, p, v) ==
    IF p > Len(st) THEN Append(st, v) ELSE [st EXCEPT ![p] = v]

\* Var without the check for a name already declared
VarFaultNoDuplicateCheck(name) ==
    IF Contains(name, "=") THEN "contains =" ELSE ""

\* Var without the check for '=' in the name
VarFaultNoEqualsCheck(name) ==
    IF name \in DOMAIN formal THEN "variable redefined" ELSE ""

\* the name checks of Var: the text of the panic, "" when the name is accepted
VarFault(name) ==
    IF Contains(name, "=") THEN "contains ="
    ELSE IF name \in DOMAIN formal THEN "variable redefined"
    ELSE ""

\* Var that renders the default from a zero Value instead of the value given
VarDefValueOfZero(kind, p, name, description, st) ==
    IF VarFault(name) # ""
    THEN /\ output' = Append(output, [line |-> VarFault(name), name |-> name])
         /\ halt' = Panicked([msg |-> VarFault(name), name |-> name])
         /\ UNCHANGED formal
    ELSE /\ formal' = MapPut(formal, name,
                             [Name |-> name, Description |-> description, Kind |-> kind,
                              Cell |-> p, DefValue |-> ValueString(kind, Zero(kind))])
         /\ UNCHANGED <<output, halt>>

\* Var(value, name, description) for the Value of kind `kind` on cell p, the
\* default being in the cell already: panics after printing the message, or
\* adds the Spec to formal. e.undef is never written, so its check never fires.
Var(kind, p, name, description, st) ==
    IF VarFault(name) # ""
    THEN /\ output' = Append(output, [line |-> VarFault(name), name |-> name])
         /\ halt' = Panicked([msg |-> VarFault(name), name |-> name])
         /\ UNCHANGED formal
    ELSE /\ formal' = MapPut(formal, name,
                             [Name |-> name, Description |-> description, Kind |-> kind,
                              Cell |-> p, DefValue |-> ValueString(kind, st[p])])
         /\ UNCHANGED <<output, halt>>

\* BoolVar, IntVar, StringVar: newBoolValue (newIntValue, newStringValue) stores
\* the default in *p, then Var declares the variable
DeclareVar(kind, p, name, value, description) ==
    /\ pc = "idle"
    /\ halt = Running
    /\ store' = WriteCell(store, p, value)
    /\ Var(kind, p, name, description, WriteCell(store, p, value))
    /\ declared' = Append(declared, [kind |-> kind, p |-> p, name |-> name, value |-> value,
                                     description |-> description])
    /\ UNCHANGED <<actual, environment, errorHandling, Usage, flagUsage, parsed, pc, err, ret,
                   consumed, setCalls, usageCalls, before>>

\* Bool, Int, String: p := new(T), then as BoolVar, IntVar, StringVar
EnvSet_Bool(name, value, description) == DeclareVar("bool", Len(store) + 1, name, value, description)
EnvSet_Int(name, value, description) == DeclareVar("int", Len(store) + 1, name, value, description)
EnvSet_String(name, value, description) == DeclareVar("string", Len(store) + 1, name, value, description)

\* ------------------------------------------------------------------ every kind
\* the one variable name of the programs that declare a variable of any kind
T_V == <<"V">>

\* Int64, Uint, Uint64, Float64, Duration: p := new(T), newXValue stores the
\* default in *p, then Var declares the variable
EnvSet_Int64(name, value, description) == DeclareVar("int64", Len(store) + 1, name, value, description)
EnvSet_Uint(name, value, description) == DeclareVar("uint", Len(store) + 1, name, value, description)
EnvSet_Uint64(name, value, description) == DeclareVar("uint64", Len(store) + 1, name, value, description)
EnvSet_Float64(name, value, description) == DeclareVar("float64", Len(store) + 1, name, value, description)
EnvSet_Duration(name, value, description) == DeclareVar("duration", Len(store) + 1, name, value, description)

\* Func, BoolFunc: Var(funcValue(fn)), Var(boolFuncValue(fn)); the cell is the
\* closure of fn
EnvSet_Func(name, description, fn) == DeclareVar("func", Len(store) + 1, name, Closure(fn), description)
EnvSet_BoolFunc(name, description, fn) == DeclareVar("boolfunc", Len(store) + 1, name, Closure(fn), description)

\* The dynamic types of the arguments of TextVar, as reflect sees them: a type
\* is the text of its name, "*" being the pointer constructor; T and U are
\* struct types whose pointers implement encoding.TextUnmarshaler, M is a map
\* type that implements it itself (and so does *M); the empty text is the nil
\* interface value, which has no type. A pointer to a pointer has no methods
\* and is not among the arguments.
TypePtrT == <<"*", "T">>
TypePtrU == <<"*", "U">>
TypePtrM == <<"*", "M">>
TypeM == <<"M">>
TypeNil == <<>>
TextTypes == {TypePtrT, TypePtrU, TypePtrM, TypeM, TypeNil}

\* reflect.Value.Kind() of a value of type t; reflect.Type.Elem() of a pointer type
KindOf(t) == IF t = TypeNil THEN "invalid" ELSE IF t[1] = "*" THEN "ptr" ELSE "map"
ElemType(t) == Tail(t)

\* newTextValue(val, p) on the types of its arguments: the text of the panic,
\* "" when it returns. defVal is dereferenced when it is NOT a pointer, and
\* reflect.Value.Elem panics on a value that is neither pointer nor interface;
\* a pointer default is compared, undereferenced, with the element type of p.
newTextValue(val, p) ==
    IF KindOf(p) # "ptr" THEN "variable value type must be a pointer"
    ELSE IF KindOf(val) # "ptr" THEN "reflect: call of reflect.Value.Elem"
    ELSE IF val # ElemType(p) THEN "default type value does not match variable type"
    ELSE ""

\* TextVar(p, name, value, description): newTextValue, then Var; p and value
\* are given by their types, the storage target of a pointer p being a new cell
EnvSet_TextVar(p, name, value, description) ==
    /\ pc = "idle"
    /\ halt = Running
    /\ declared' = Append(declared, [kind |-> "text", p |-> Len(store) + 1, name |-> name,
                                     value |-> value, description |-> description,
                                     ptype |-> p])
    /\ IF newTextValue(value, p) # ""
       THEN /\ halt' = Panicked([msg |-> newTextValue(value, p)])
            /\ UNCHANGED <<store, formal, output>>
       ELSE /\ store' = WriteCell(store, Len(store) + 1, [type |-> value, text |-> <<>>])
            /\ Var("text", Len(store) + 1, name, description,
                   WriteCell(store, Len(store) + 1, [type |-> value, text |-> <<>>]))
    /\ UNCHANGED <<actual, environment, errorHandling, Usage, flagUsage, parsed, pc, err, ret,
                   consumed, setCalls, usageCalls, before>>

\* the declarations of the programs that declare V: kind and default value
KindDeclarations ==
    { [kind |-> "bool", value |-> TRUE],
      [kind |-> "int", value |-> IntOf(7)],
      [kind |-> "int64", value |-> IntOf(7)],
      [kind |-> "uint", value |-> IntOf(7)],
      [kind |-> "uint64", value |-> IntOf(7)],
      [kind |-> "string", value |-> <<"x">>],
      [kind |-> "float64", value |-> FloatZero],
      [kind |-> "duration", value |-> 0] }

\* the descriptions of V: without a back quote, with one, with two, with
\* three, and with two that hold nothing
Descriptions ==
    { <<"v">>,
      <<"a", BackQuote, "b">>,
      <<"a", " ", BackQuote, "n", BackQuote>>,
      <<BackQuote, "a", BackQuote, "b", BackQuote>>,
      <<BackQuote, BackQuote>> }

\* the value texts of the entries for V
KindTexts ==
    { <<"8", "0", "8", "0">>,
      <<"1">>,
      <<"1", ".", "5">>,
      <<"9", "9", "9", "9", "9", "9", "9", "9", "9", "9", "9", "9", "9", "9", "9", "9", "9", "9", "9", "9">>,      \* above every 64-bit range
      <<"0", "x", "1", "0">>,
      <<"1", "h", "3", "0", "m", "0", "s">>,
      <<"1", "e", "9", "9", "9">>,     \* above the float64 range
      <<>>,
      <<"t", "r", "u", "e">>,
      <<"n", "o", "t", "a", "n", "u", "m", "b", "e", "r">> }

KindEntries == { T_V \o <<"=">> \o t : t \in KindTexts }

\* ------------------------------------------------------------------ Parse
\* only HELP triggers the help
IsHelpLongOnly(name) == name = T_HELP

\* HELP and H trigger the help only when no such variable is declared
IsHelpUndeclared(name) == (name = T_HELP \/ name = T_H) /\ name \notin DOMAIN formal

\* the names that trigger the help
IsHelp(name) == name = T_HELP \/ name = T_H

\* a name that was set already is skipped: the first occurrence wins
LookupUnset(name) ==
    IF name \in DOMAIN formal /\ name \notin DOMAIN actual THEN <<formal[name]>> ELSE <<>>

\* the Spec parseOne finds for a name: <<>> when the name is not declared
Lookup(name) == IF name \in DOMAIN formal THEN <<formal[name]>> ELSE <<>>

\* spec.Value.Set(value): the new content of the Spec's cell and the error
SpecSet(spec, value) ==
    CASE spec.Kind = "bool" -> boolValueSet(value)
      [] spec.Kind = "int" -> intValueSet(value)
      [] spec.Kind = "string" -> stringValueSet(value)
      [] spec.Kind = "int64" -> int64ValueSet(value)
      [] spec.Kind = "uint" -> uintValueSet(value)
      [] spec.Kind = "uint64" -> uint64ValueSet(value)
      [] spec.Kind = "float64" -> float64ValueSet(store[spec.Cell], value)
      [] spec.Kind = "duration" -> durationValueSet(store[spec.Cell], value)
      [] spec.Kind \in {"func", "boolfunc"} -> funcValueSet(store[spec.Cell], value)
      [] spec.Kind = "text" -> textValueSet(store[spec.Cell], value)
      [] spec.Kind = "custom" -> customValueSet(value)

\* e.actual gets a new Spec made for the entry instead of the declared one
ObserveCopy(act, name, spec) == MapPut(act, name, [spec EXCEPT !.Description = <<>>])

\* e.actual[name] = spec
Observe(act, name, spec) == MapPut(act, name, spec)

\* What a call of parseOne returns and leaves behind: err and done, then
\* e.environment, the cells, e.actual and the output after it, the Set calls
\* it made and how often it ran e.usage().
\* parseOne on an empty list
Drained ==
    [err |-> NoErr, done |-> TRUE, environment |-> environment, store |-> store,
     actual |-> actual, output |-> output, sets |-> <<>>, usages |-> 0]

\* parseOne that reads the first entry and leaves it on the list
PoppedKeepsEntry == [Drained EXCEPT !.done = FALSE]

\* parseOne after taking the first entry off the list
Popped == [Drained EXCEPT !.done = FALSE, !.environment = Tail(environment)]

\* a switch whose ContinueOnError case goes on with the loop
DispatchGoesOn(policy) ==
    CASE policy = ExitOnError -> "exit"
      [] policy = PanicOnError -> "panic"
      [] OTHER -> "continue"

\* the switch of Parse on e.errorHandling after a step returned err: "return",
\* "exit", "panic", or "continue" when no case matches
Dispatch(policy) ==
    CASE policy = ContinueOnError -> "return"
      [] policy = ExitOnError -> "exit"
      [] policy = PanicOnError -> "panic"
      [] OTHER -> "continue"

\* parseOne for a help trigger: the usage, then ErrHelp
HelpRequested(r) ==
    [r EXCEPT !.err = ErrHelp, !.output = r.output \o usage, !.usages = r.usages + 1]

\* parseOne for a declared name: Set, then failf or the entry in e.actual
Apply(r, spec, name, value) ==
    LET set == SpecSet(spec, value)
        called == [r EXCEPT !.store = WriteCell(r.store, spec.Cell, set.v),
                            !.sets = Append(r.sets, <<name, value>>)]
    IN  IF set.err # NoErr
        THEN [called EXCEPT !.err = failfError(value, name, set.err),
                            !.output = r.output \o failfLines(value, name, set.err),
                            !.usages = r.usages + 1]
        ELSE [called EXCEPT !.actual = Observe(r.actual, name, spec)]

\* the declared name is looked up and set before the help triggers are checked
parseEntryLookupFirst(s) ==
    IF Lookup(Cut(s).before) # <<>>
    THEN LET r == Apply(Popped, Lookup(Cut(s).before)[1], Cut(s).before, Cut(s).after)
         IN  IF r.err = NoErr /\ IsHelp(Cut(s).before) THEN HelpRequested(r) ELSE r
    ELSE IF IsHelp(Cut(s).before) THEN HelpRequested(Popped)
    ELSE Popped

\* a name that is not declared is an error, as an undefined flag is
parseEntryStrict(s) ==
    IF IsHelp(Cut(s).before) THEN HelpRequested(Popped)
    ELSE IF Lookup(Cut(s).before) = <<>>
    THEN [Popped EXCEPT !.err = [err |-> "provided but not defined", name |-> Cut(s).before],
                        !.output = output \o <<[line |-> "provided but not defined",
                                                 name |-> Cut(s).before]>> \o usage,
                        !.usages = 1]
    ELSE Apply(Popped, Lookup(Cut(s).before)[1], Cut(s).before, Cut(s).after)

\* parseOne for the entry s
parseEntry(s) ==
    IF IsHelp(Cut(s).before) THEN HelpRequested(Popped)
    ELSE IF Lookup(Cut(s).before) = <<>> THEN Popped
    ELSE Apply(Popped, Lookup(Cut(s).before)[1], Cut(s).before, Cut(s).after)

parseOne ==
    IF Len(environment) = 0 THEN Drained ELSE parseEntry(Head(environment))

\* the element of a set of one element: a result computed once
TheOne(S) == CHOOSE x \in S : TRUE

\* parseOne for the entry s from the state r, inside a callback's Parse
parseEntryWithin(r, s) ==
    IF IsHelp(Cut(s).before) THEN HelpRequested(r)
    ELSE IF Lookup(Cut(s).before) = <<>> THEN r
    ELSE Apply(r, Lookup(Cut(s).before)[1], Cut(s).before, Cut(s).after)

\* e.Parse(list) called by a callback while a step of Parse is under way: the
\* list is stored in e.environment, the loop runs to its end. The result has
\* the error of the step that ended the call; for ContinueOnError the call
\* returns it, for ExitOnError and PanicOnError the process ends in the call.
RECURSIVE ParseWithin(_, _)
LoopWithin(step, rest) ==
    IF step.err = NoErr \/ Dispatch(errorHandling) = "continue"
    THEN ParseWithin(step, rest)
    ELSE step

ParseWithin(r, list) ==
    IF list = <<>> THEN [r EXCEPT !.environment = <<>>, !.err = NoErr]
    ELSE TheOne({ LoopWithin(step, Tail(list)) :
                    step \in {parseEntryWithin([r EXCEPT !.environment = Tail(list),
                                                          !.err = NoErr],
                                                Head(list))} })

\* parseOne for a declared Func variable whose function calls e.Parse: the
\* call of Set is the inner Parse; its error, when it returns one, is the
\* error of Set
AfterParsing(inner, spec, name, value) ==
    IF inner.err = NoErr
    THEN [inner EXCEPT !.actual = Observe(inner.actual, name, spec)]
    ELSE IF Dispatch(errorHandling) = "return"
    THEN [inner EXCEPT !.err = failfError(value, name, inner.err),
                       !.output = inner.output \o failfLines(value, name, inner.err),
                       !.usages = inner.usages + 1]
    ELSE inner

ApplyParsing(r, spec, name, value) ==
    TheOne({ AfterParsing(inner, spec, name, value) :
               inner \in {ParseWithin([r EXCEPT !.sets = Append(r.sets, <<name, value>>)],
                                      ParsedBy(r.store[spec.Cell].fn))} })

\* parseOne where the functions of Func variables may call e.Parse
parseOneNested ==
    IF Len(environment) = 0 THEN Drained
    ELSE IF /\ ~IsHelp(Cut(Head(environment)).before)
            /\ Lookup(Cut(Head(environment)).before) # <<>>
            /\ Lookup(Cut(Head(environment)).before)[1].Kind \in {"func", "boolfunc"}
            /\ store[Lookup(Cut(Head(environment)).before)[1].Cell].fn \in ParsingCallbacks
    THEN ApplyParsing(Popped, Lookup(Cut(Head(environment)).before)[1],
                      Cut(Head(environment)).before, Cut(Head(environment)).after)
    ELSE parseEntry(Head(environment))

\* os.Exit(2) for every error
ExitCodeAlways2(e) == 2

\* os.Exit(0) for the help sentinel, os.Exit(2) otherwise
ExitCode(e) == IF e = ErrHelp THEN 0 ELSE 2

\* Parse that starts from an empty e.actual
ParseBeginFresh ==
    /\ pc = "idle"
    /\ halt = Running
    /\ parsed' = TRUE
    /\ \E list \in Lists : environment' = list
    /\ pc' = "Parse"
    /\ err' = NoErr
    /\ ret' = NoReturn
    /\ consumed' = <<>>
    /\ setCalls' = <<>>
    /\ usageCalls' = 0
    /\ actual' = EmptyMap
    /\ before' = [store |-> store, actual |-> actual, formal |-> formal, list |-> environment']
    /\ UNCHANGED <<formal, store, errorHandling, Usage, flagUsage, output, halt, declared>>

\* Parse(list), up to the loop
ParseBegin ==
    /\ pc = "idle"
    /\ halt = Running
    /\ parsed' = TRUE
    /\ \E list \in Lists : environment' = list
    /\ pc' = "Parse"
    /\ err' = NoErr
    /\ ret' = NoReturn
    /\ consumed' = <<>>
    /\ setCalls' = <<>>
    /\ usageCalls' = 0
    /\ before' = [store |-> store, actual |-> actual, formal |-> formal, list |-> environment']
    /\ UNCHANGED <<formal, actual, store, errorHandling, Usage, flagUsage, output, halt, declared>>

\* Parse(list) of a given list, up to the loop
Parse(list) ==
    /\ pc = "idle"
    /\ halt = Running
    /\ parsed' = TRUE
    /\ environment' = list
    /\ pc' = "Parse"
    /\ err' = NoErr
    /\ ret' = NoReturn
    /\ consumed' = <<>>
    /\ setCalls' = <<>>
    /\ usageCalls' = 0
    /\ before' = [store |-> store, actual |-> actual, formal |-> formal, list |-> environment']
    /\ UNCHANGED <<formal, actual, store, errorHandling, Usage, flagUsage, output, halt, declared>>

\* the caller renders the value of V and parses the rendering:
\* e.Parse([]string{"V=" + e.Lookup("V").Value.String()})
ParseRendered ==
    /\ T_V \in DOMAIN formal
    /\ Parse(<<T_V \o <<"=">> \o ValueString(formal[T_V].Kind, store[formal[T_V].Cell])>>)

\* the loop of Parse after parseOne returned r: break, continue or the switch
LoopTurnAfter(r) ==
    LET how == IF r.done THEN "break"
               ELSE IF r.err = NoErr THEN "continue"
               ELSE Dispatch(errorHandling)
    IN  /\ environment' = r.environment
        /\ store' = r.store
        /\ actual' = r.actual
        /\ output' = r.output
        /\ err' = r.err
        /\ consumed' = IF r.done THEN consumed ELSE Append(consumed, Head(environment))
        /\ setCalls' = setCalls \o r.sets
        /\ usageCalls' = usageCalls + r.usages
        /\ pc' = IF how \in {"break", "return"} THEN "return" ELSE "Parse"
        /\ ret' = CASE how = "break" -> NoErr
                    [] how = "return" -> r.err
                    [] OTHER -> ret
        /\ halt' = CASE how = "exit" -> Exited(ExitCode(r.err))
                     [] how = "panic" -> Panicked(r.err)
                     [] OTHER -> halt

\* one turn of the loop of Parse: parseOne, then break, continue or the switch
ParseStep ==
    /\ pc = "Parse"
    /\ halt = Running
    /\ \E r \in {parseOne} : LoopTurnAfter(r)
    /\ UNCHANGED <<formal, errorHandling, Usage, flagUsage, parsed, before, declared>>

\* one turn of the loop of Parse with callbacks that may call e.Parse
ParseStepNested ==
    /\ pc = "Parse"
    /\ halt = Running
    /\ \E r \in {parseOneNested} : LoopTurnAfter(r)
    /\ UNCHANGED <<formal, errorHandling, Usage, flagUsage, parsed, before, declared>>

\* Parse returns ret to its caller; the next operation starts with nothing
\* written and no call under way
ParseReturn ==
    /\ pc = "return"
    /\ halt = Running
    /\ pc' = "idle"
    /\ err' = NoErr
    /\ ret' = NoReturn
    /\ consumed' = <<>>
    /\ setCalls' = <<>>
    /\ usageCalls' = 0
    /\ before' = NoSnapshot
    /\ output' = <<>>
    /\ UNCHANGED <<formal, actual, store, environment, errorHandling, Usage, flagUsage, parsed, halt,
                   declared>>

\* ------------------------------------------------------------------ Var, PrintDefaults
\* Var(value, name, description) with a Value of the caller's own: the cell
\* is the caller's struct
EnvSet_Var(value, name, description) ==
    DeclareVar("custom", Len(store) + 1, name, value, description)

\* the names the caller gives to Values of its own
CustomNames == { <<"A">>, <<"B">>, T_HELP }

\* the caller calls e.PrintDefaults()
EnvSet_PrintDefaults ==
    /\ pc = "idle"
    /\ halt = Running
    /\ output' = PrintDefaults
    /\ pc' = "PrintDefaults"
    /\ UNCHANGED <<formal, actual, store, environment, errorHandling, Usage, flagUsage,
                   parsed, halt, err, ret, consumed, setCalls, usageCalls, before, declared>>

\* e.PrintDefaults() returns; the next operation starts with nothing written
PrintDefaultsReturn ==
    /\ pc = "PrintDefaults"
    /\ halt = Running
    /\ pc' = "idle"
    /\ output' = <<>>
    /\ UNCHANGED <<formal, actual, store, environment, errorHandling, Usage, flagUsage,
                   parsed, halt, err, ret, consumed, setCalls, usageCalls, before, declared>>

\* ------------------------------------------------------------------ Link
\* f.Usage is held as the closure it is: the sequence of its layers. The empty
\* sequence is nil; the first layer is the function at the bottom, the
\* caller's callback ("flag callback") or the method value f.PrintDefaults
\* ("PrintDefaults"); every further layer is one closure made by Link, which
\* captured the layers below it as flagSetUsage.
FlagNil == <<>>
FlagCallback == <<"flag callback">>

\* the number of Link calls of a program
MaxLinks == 2

\* the closure of Link that calls e.usage() before flagSetUsage()
RECURSIVE RunFlagUsageEnvFirst(_)
RunFlagUsageEnvFirst(f) ==
    IF Len(f) = 1 THEN <<[line |-> f[1]]>>
    ELSE usage \o RunFlagUsageEnvFirst(SubSeq(f, 1, Len(f) - 1))

\* f.Usage(), f.Usage not nil: what the call writes. A layer made by Link
\* calls flagSetUsage(), the layers below it, then e.usage()
RECURSIVE RunFlagUsage(_)
RunFlagUsage(f) ==
    IF Len(f) = 1 THEN <<[line |-> f[1]]>>
    ELSE RunFlagUsage(SubSeq(f, 1, Len(f) - 1)) \o usage

\* the caller assigns the exported field e.Usage
SetUsage(fn) ==
    /\ pc = "idle"
    /\ halt = Running
    /\ Usage' = fn
    /\ UNCHANGED <<formal, actual, store, environment, errorHandling, flagUsage, parsed,
                   output, halt, pc, err, ret, consumed, setCalls, usageCalls, before,
                   declared>>

\* the caller assigns f.Usage a callback of its own
SetFlagUsage ==
    /\ pc = "idle"
    /\ halt = Running
    /\ flagUsage' = FlagCallback
    /\ UNCHANGED <<formal, actual, store, environment, errorHandling, Usage, parsed,
                   output, halt, pc, err, ret, consumed, setCalls, usageCalls, before,
                   declared>>

\* Link(f, e): flagSetUsage is f.Usage, or f.PrintDefaults when that is nil;
\* f.Usage becomes the closure over it
Link ==
    /\ pc = "idle"
    /\ halt = Running
    /\ Len(SelectSeq(flagUsage, LAMBDA l : l = "link")) < MaxLinks
    /\ flagUsage' = (IF flagUsage = FlagNil THEN <<"PrintDefaults">> ELSE flagUsage)
                     \o <<"link">>
    /\ UNCHANGED <<formal, actual, store, environment, errorHandling, Usage, parsed,
                   output, halt, pc, err, ret, consumed, setCalls, usageCalls, before,
                   declared>>

\* the flag package calls f.Usage(); usageCalls counts the calls of e.usage()
InvokeFlagUsage ==
    /\ pc = "idle"
    /\ halt = Running
    /\ flagUsage # FlagNil
    /\ output' = RunFlagUsage(flagUsage)
    /\ usageCalls' = Len(flagUsage) - 1
    /\ pc' = "usage"
    /\ UNCHANGED <<formal, actual, store, environment, errorHandling, Usage, flagUsage,
                   parsed, halt, err, ret, consumed, setCalls, before, declared>>

\* f.Usage() returns; the next operation starts with nothing written
FlagUsageReturn ==
    /\ pc = "usage"
    /\ halt = Running
    /\ pc' = "idle"
    /\ output' = <<>>
    /\ usageCalls' = 0
    /\ UNCHANGED <<formal, actual, store, environment, errorHandling, Usage, flagUsage,
                   parsed, halt, err, ret, consumed, setCalls, before, declared>>

\* ------------------------------------------------------------------ specification
Init ==
    /\ formal = EmptyMap
    /\ actual = EmptyMap
    /\ store = <<>>
    /\ environment = <<>>
    /\ errorHandling \in Policies
    /\ Usage = "nil"
    /\ flagUsage = FlagNil
    /\ parsed = FALSE
    /\ output = <<>>
    /\ halt = Running
    /\ pc = "idle"
    /\ err = NoErr
    /\ ret = NoReturn
    /\ consumed = <<>>
    /\ setCalls = <<>>
    /\ usageCalls = 0
    /\ before = NoSnapshot
    /\ declared = <<>>

Next ==
    \/ \E d \in Declarations : d.kind = "bool" /\ EnvSet_Bool(d.name, d.value, d.description)
    \/ \E d \in Declarations : d.kind = "int" /\ EnvSet_Int(d.name, d.value, d.description)
    \/ \E d \in Declarations : d.kind = "string" /\ EnvSet_String(d.name, d.value, d.description)
    \/ ParseBegin
    \/ ParseStep
    \/ ParseReturn

Spec == Init /\ [][Next]_vars

\* The programs that declare int variables and parse lists. Parse is one
\* synchronous call: once begun, its loop goes on until it returns, exits or
\* panics, which is the fairness of the loop step.
IntDeclarations ==
    { [name |-> <<"A">>, value |-> IntOf(7)],
      [name |-> <<"B">>, value |-> IntOf(0)],
      [name |-> T_HELP, value |-> IntOf(1)] }

NextLive ==
    \/ \E d \in IntDeclarations : EnvSet_Int(d.name, d.value, <<"i">>)
    \/ ParseBegin
    \/ ParseStep
    \/ ParseReturn

\* a turn of the loop as its caller sees it: the drained check returns, any
\* other turn takes the first entry off the list. Every ParseStep is such a
\* turn and no other action of NextLive is.
LoopTurn ==
    /\ pc = "Parse"
    /\ halt = Running
    /\ \/ environment = <<>> /\ pc' = "return" /\ environment' = environment
       \/ environment # <<>> /\ environment' = Tail(environment) /\ pc' \in {"Parse", "return"}

SpecLive == Init /\ [][NextLive]_vars /\ WF_<<pc, environment>>(LoopTurn)

\* The programs that declare one variable V, of any kind, and parse lists of
\* one entry for it.
NextKinds ==
    \/ \E d \in KindDeclarations, desc \in Descriptions :
          d.kind = "bool" /\ EnvSet_Bool(T_V, d.value, desc)
    \/ \E d \in KindDeclarations, desc \in Descriptions :
          d.kind = "int" /\ EnvSet_Int(T_V, d.value, desc)
    \/ \E d \in KindDeclarations, desc \in Descriptions :
          d.kind = "int64" /\ EnvSet_Int64(T_V, d.value, desc)
    \/ \E d \in KindDeclarations, desc \in Descriptions :
          d.kind = "uint" /\ EnvSet_Uint(T_V, d.value, desc)
    \/ \E d \in KindDeclarations, desc \in Descriptions :
          d.kind = "uint64" /\ EnvSet_Uint64(T_V, d.value, desc)
    \/ \E d \in KindDeclarations, desc \in Descriptions :
          d.kind = "string" /\ EnvSet_String(T_V, d.value, desc)
    \/ \E d \in KindDeclarations, desc \in Descriptions :
          d.kind = "float64" /\ EnvSet_Float64(T_V, d.value, desc)
    \/ \E d \in KindDeclarations, desc \in Descriptions :
          d.kind = "duration" /\ EnvSet_Duration(T_V, d.value, desc)
    \/ \E fn \in Callbacks, desc \in Descriptions : EnvSet_Func(T_V, desc, fn)
    \/ \E fn \in Callbacks, desc \in Descriptions : EnvSet_BoolFunc(T_V, desc, fn)
    \/ \E p \in TextTypes, value \in TextTypes : EnvSet_TextVar(p, T_V, value, <<"v">>)
    \/ \E entry \in KindEntries : Parse(<<entry>>)
    \/ ParseRendered
    \/ ParseStep
    \/ ParseReturn

SpecKinds == Init /\ [][NextKinds]_vars

\* The programs that declare variables, set the usage callbacks, link a
\* FlagSet to the EnvSet and have the flag package call f.Usage.
NextLink ==
    \/ \E d \in Declarations : d.kind = "bool" /\ EnvSet_Bool(d.name, d.value, d.description)
    \/ \E d \in Declarations : d.kind = "int" /\ EnvSet_Int(d.name, d.value, d.description)
    \/ \E d \in Declarations : d.kind = "string" /\ EnvSet_String(d.name, d.value, d.description)
    \/ \E fn \in {"nil", "callback"} : SetUsage(fn)
    \/ SetFlagUsage
    \/ Link
    \/ InvokeFlagUsage
    \/ FlagUsageReturn

SpecLink == Init /\ [][NextLink]_vars

\* The programs that declare variables of the built-in kinds and of a kind of
\* their own, and print the defaults.
NextVar ==
    \/ \E d \in Declarations : d.kind = "bool" /\ EnvSet_Bool(d.name, d.value, d.description)
    \/ \E d \in Declarations : d.kind = "int" /\ EnvSet_Int(d.name, d.value, d.description)
    \/ \E d \in Declarations : d.kind = "string" /\ EnvSet_String(d.name, d.value, d.description)
    \/ \E n \in CustomNames : EnvSet_Var(CustomValue(<<"x">>), n, <<"c">>)
    \/ EnvSet_PrintDefaults
    \/ PrintDefaultsReturn

SpecVar == Init /\ [][NextVar]_vars

\* ------------------------------------------------- IntVar on the caller's cells
\* IntVar(p, name, value, description): p points to an int of the caller
EnvSet_IntVar(p, name, value, description) ==
    /\ p \in 1..Len(store)
    /\ DeclareVar("int", p, name, value, description)

\* the calls of IntVar the caller makes: its two ints, bound to A, B or A=B
IntVarDeclarations ==
    { [p |-> p, name |-> n, value |-> IntOf(7)] :
        p \in 1..2, n \in { <<"A">>, <<"B">>, <<"A", "=", "B">> } }

\* a new registry next to the caller's `var x, y int`
InitIntVar ==
    /\ formal = EmptyMap
    /\ actual = EmptyMap
    /\ store = <<Zero("int"), Zero("int")>>
    /\ environment = <<>>
    /\ errorHandling \in Policies
    /\ Usage = "nil"
    /\ flagUsage = FlagNil
    /\ parsed = FALSE
    /\ output = <<>>
    /\ halt = Running
    /\ pc = "idle"
    /\ err = NoErr
    /\ ret = NoReturn
    /\ consumed = <<>>
    /\ setCalls = <<>>
    /\ usageCalls = 0
    /\ before = NoSnapshot
    /\ declared = <<>>

NextIntVar ==
    \/ \E d \in IntVarDeclarations : EnvSet_IntVar(d.p, d.name, d.value, <<"i">>)
    \/ ParseBegin
    \/ ParseStep
    \/ ParseReturn

SpecIntVar == InitIntVar /\ [][NextIntVar]_vars

\* ------------------------------------------------------- Init with any policy
\* an ErrorHandling that is none of the three named ones: ErrorHandling(3)
OtherErrorHandling == 3

\* the values Init is called with
ErrorHandlings == Policies \cup {OtherErrorHandling}

\* e.Init(name, errorHandling); the name is only printed by defaultEnvironment
EnvSet_Init(policy) ==
    /\ pc = "idle"
    /\ halt = Running
    /\ errorHandling' = policy
    /\ UNCHANGED <<formal, actual, store, environment, Usage, flagUsage, parsed, output, halt,
                   pc, err, ret, consumed, setCalls, usageCalls, before, declared>>

NextInit ==
    \/ \E policy \in ErrorHandlings : EnvSet_Init(policy)
    \/ \E d \in IntDeclarations : EnvSet_Int(d.name, d.value, <<"i">>)
    \/ ParseBegin
    \/ ParseStep
    \/ ParseReturn

SpecInit == Init /\ [][NextInit]_vars

\* ------------------------------------------------- Parse called by a callback
\* an int variable A and a Func variable B whose function parses a list of
\* its own on the same registry
NextNested ==
    \/ EnvSet_Int(<<"A">>, IntOf(7), <<"i">>)
    \/ \E fn \in ParsingCallbacks : EnvSet_Func(<<"B">>, <<"f">>, fn)
    \/ ParseBegin
    \/ ParseStepNested
    \/ ParseReturn

SpecNested == Init /\ [][NextNested]_vars

\* ------------------------------------------------------------------ properties
\* the name and the value text of an entry, read off its characters
RECURSIVE EntryName(_)
EntryName(e) ==
    IF Len(e) = 0 \/ e[1] = "=" THEN <<>> ELSE <<e[1]>> \o EntryName(Tail(e))

EntryValue(e) == SubSeq(e, Len(EntryName(e)) + 2, Len(e))

HelpNames == {T_H, T_HELP}
HasEquals(n) == \E i \in 1..Len(n) : n[i] = "="

Occurs(n, list) == \E i \in 1..Len(list) : EntryName(list[i]) = n

\* the value text of the last entry of the list that names n
LastValueOf(n, list) ==
    LET at == {i \in 1..Len(list) : EntryName(list[i]) = n}
    IN  EntryValue(list[CHOOSE i \in at : \A j \in at : j <= i])

\* the value a text stands for in a cell of a kind
ParsedValue(kind, text) ==
    CASE kind = "bool" -> ParseBool(text).v
      [] kind = "int" -> ParseInt(text).v
      [] kind = "string" -> text

\* a Parse call is running or returning
InCall == pc \in {"Parse", "return"}
\* a Parse call is returning ret
Returned == pc = "return"

\* C1: after a Parse call that went through its whole list and returned nil,
\* every declared name occurring in the list holds the parse of the value text
\* of its last occurrence and is in actual.
C1_LastWriteWins ==
    (Returned /\ ret = NoErr) =>
        /\ environment = <<>>
        /\ \A n \in DOMAIN formal :
              Occurs(n, consumed) =>
                  /\ store[formal[n].Cell] = ParsedValue(formal[n].Kind, LastValueOf(n, consumed))
                  /\ n \in DOMAIN actual

C1_Witness ==
    /\ Returned /\ ret = NoErr
    /\ Len(consumed) = 2
    /\ consumed[1] # consumed[2]
    /\ EntryName(consumed[1]) = EntryName(consumed[2])
    /\ EntryName(consumed[1]) \in DOMAIN formal

C5_HelpMutatesNothing ==
    (Returned /\ ret = ErrHelp /\ errorHandling = ContinueOnError) =>
        store = before.store /\ actual = before.actual

\* C5 amended: such a call changed only cells of variables named by an entry
\* before the help trigger and added only such names to actual; when the
\* trigger is the first entry it changed nothing.
C5_HelpMutatesOnlyBefore ==
    (Returned /\ ret = ErrHelp /\ errorHandling = ContinueOnError) =>
        LET earlier == SubSeq(consumed, 1, Len(consumed) - 1)
        IN  /\ EntryName(consumed[Len(consumed)]) \in HelpNames
            /\ Len(store) = Len(before.store)
            /\ \A p \in 1..Len(store) :
                  store[p] # before.store[p] =>
                      \E n \in DOMAIN formal : formal[n].Cell = p /\ Occurs(n, earlier)
            /\ \A n \in DOMAIN actual : n \in DOMAIN before.actual \/ Occurs(n, earlier)
            /\ Len(consumed) = 1 => store = before.store /\ actual = before.actual

C5_Witness ==
    /\ Returned /\ ret = ErrHelp /\ errorHandling = ContinueOnError
    /\ Len(consumed) = 2
    /\ store # before.store
    /\ actual # before.actual

C7_DuplicatePanics ==
    \A i, j \in 1..Len(declared) :
        (i < j /\ declared[i].name = declared[j].name) =>
            /\ j = Len(declared)
            /\ halt = [how |-> "panic",
                       value |-> [msg |-> "variable redefined", name |-> declared[j].name]]
            /\ ret = NoReturn
            /\ declared[j].name \in DOMAIN formal
            /\ formal[declared[j].name] =
                  [Name |-> declared[i].name, Description |-> declared[i].description,
                   Kind |-> declared[i].kind, Cell |-> declared[i].p,
                   DefValue |-> ValueString(declared[i].kind, declared[i].value)]

C7_Witness ==
    /\ halt.how = "panic"
    /\ errorHandling = ContinueOnError
    /\ \E i, j \in 1..Len(declared) :
          i < j /\ declared[i].name = declared[j].name /\ declared[i].kind # declared[j].kind

\* C8: declaring a name containing '=' panics under every policy and adds
\* nothing to formal; no name in formal contains '='.
C8_EqualsRejected ==
    /\ \A n \in DOMAIN formal : ~HasEquals(n)
    /\ \A j \in 1..Len(declared) :
          HasEquals(declared[j].name) =>
              /\ j = Len(declared)
              /\ halt = [how |-> "panic",
                         value |-> [msg |-> "contains =", name |-> declared[j].name]]
              /\ ret = NoReturn
              /\ Cardinality(DOMAIN formal) = j - 1
              /\ declared[j].name \notin DOMAIN formal

C8_Witness ==
    /\ halt.how = "panic"
    /\ errorHandling = ContinueOnError
    /\ Len(declared) = 2
    /\ HasEquals(declared[2].name)

C10_ActualWithinFormal ==
    \A n \in DOMAIN actual : n \in DOMAIN formal /\ actual[n] = formal[n]

C10_Witness ==
    /\ Returned
    /\ ret # NoErr
    /\ DOMAIN before.actual # {}
    /\ DOMAIN actual # {}
    /\ DOMAIN actual # DOMAIN formal

\* C11: when Set fails for a declared name, the output of the step is the
\* diagnostic line for that name and value followed by the usage listing, the
\* usage renderer ran once, and the failure was then dispatched by the policy:
\* returned, exit status 2, or panic.
C11_DiagnosticThenUsage ==
    (InCall /\ Len(setCalls) > 0) =>
        LET last == setCalls[Len(setCalls)]
            kind == formal[last[1]].Kind
        IN  ValueSet(kind, last[2]).err # NoErr =>
                /\ Len(output) >= 2
                /\ output[1].line = "invalid value"
                /\ output[1].name = last[1] /\ output[1].value = last[2]
                /\ output[2].line = "Environment:"
                /\ \A i \in 3..Len(output) : output[i].line = "variable"
                /\ Len(output) = 2 + Cardinality(DOMAIN formal)
                /\ usageCalls = 1
                /\ err.err = "invalid value"
                /\ CASE errorHandling = ContinueOnError -> pc = "return" /\ ret = err /\ halt = Running
                     [] errorHandling = ExitOnError -> halt = [how |-> "exit", code |-> 2]
                     [] errorHandling = PanicOnError -> halt = [how |-> "panic", value |-> err]

C11_Witness ==
    /\ halt = [how |-> "exit", code |-> 2]
    /\ Len(setCalls) = 2
    /\ Len(output) = 4
    /\ output[1].line = "invalid value"

\* the names a program of this model can declare, in ascending byte order
NamesAscending == << <<"A">>, <<"B">>, T_HELP >>
Rank(n) == CHOOSE i \in 1..Len(NamesAscending) : NamesAscending[i] = n

\* a sequence of Specs holds each Spec of the map m once, every name below
\* the next one
VisitsInOrder(seq, m) ==
    /\ Len(seq) = Cardinality(DOMAIN m)
    /\ \A n \in DOMAIN m : \E i \in 1..Len(seq) : seq[i] = m[n]
    /\ \A i \in 1..(Len(seq) - 1) : Rank(seq[i].Name) < Rank(seq[i + 1].Name)

\* the names of the variable lines of the output, in the order written
RECURSIVE ListedNames(_)
ListedNames(out) ==
    IF Len(out) = 0 THEN <<>>
    ELSE (IF Head(out).line = "variable" THEN <<Head(out).name>> ELSE <<>>) \o ListedNames(Tail(out))

\* C13: VisitAll hands over every declared Spec once, names ascending,
\* whatever the declaration order and whether or not the variable was set;
\* Visit does so for the Specs in actual; a usage listing names the declared
\* variables once each, names ascending.
C13_VisitSorted ==
    /\ \A seq \in {VisitAll} : VisitsInOrder(seq, formal)
    /\ \A seq \in {Visit} : VisitsInOrder(seq, actual)
    /\ usageCalls = 1 =>
          \A listed \in {ListedNames(output)} :
              /\ Len(listed) = Cardinality(DOMAIN formal)
              /\ {listed[i] : i \in 1..Len(listed)} = DOMAIN formal
              /\ \A i \in 1..(Len(listed) - 1) : Rank(listed[i]) < Rank(listed[i + 1])

C13_Witness ==
    /\ Len(declared) = 3
    /\ declared[1].name = T_HELP /\ declared[2].name = <<"B">> /\ declared[3].name = <<"A">>
    /\ usageCalls = 1
    /\ ListedNames(output) = NamesAscending
    /\ DOMAIN actual = {<<"B">>}

\* the first declaration call made for the name n
FirstDeclared(n) ==
    declared[CHOOSE i \in 1..Len(declared) :
                 declared[i].name = n /\ \A j \in 1..(i - 1) : declared[j].name # n]

\* C14: the DefValue of every Spec, in formal and in actual, is the String()
\* rendering of the default the variable was declared with, after any Parse
\* calls and later declarations, also when the live value is another one.
C14_DefValueCaptured ==
    \A n \in DOMAIN formal :
        \A text \in {ValueString(FirstDeclared(n).kind, FirstDeclared(n).value)} :
            /\ formal[n].DefValue = text
            /\ n \in DOMAIN actual => actual[n].DefValue = text

C14_Witness ==
    /\ Returned /\ ret # NoErr /\ ret # ErrHelp
    /\ DOMAIN before.actual # {}
    /\ Len(declared) = 3 /\ ~HasEquals(declared[3].name)
    /\ \E n \in DOMAIN actual :
          ValueString(formal[n].Kind, store[formal[n].Cell]) # formal[n].DefValue

\* what String() gives for a zero-initialised Value of a kind
ZeroText(kind) ==
    CASE kind = "bool" -> T_false
      [] kind = "int" -> <<"0">>
      [] kind = "string" -> <<>>

\* C15: a line of the usage listing carries the parenthetical default exactly
\* when the rendering of the declared default differs from the rendering of a
\* zero Value of the kind, and then it is that rendering; the variable's
\* current value plays no part.
C15_DefaultShownIffNonZero ==
    \A i \in 1..Len(output) :
        output[i].line = "variable" =>
            LET d == FirstDeclared(output[i].name)
                text == ValueString(d.kind, d.value)
            IN  output[i].default = IF text = ZeroText(d.kind) THEN <<>> ELSE <<text>>

C15_Witness ==
    /\ usageCalls = 1
    /\ \E i, j \in 1..Len(output) :
          /\ output[i].line = "variable" /\ output[j].line = "variable"
          /\ output[i].name = <<"A">> /\ formal[<<"A">>].Kind = "bool"
          /\ output[i].default = <<T_true>>
          /\ store[formal[<<"A">>].Cell] = FALSE
          /\ output[j].name = T_HELP /\ output[j].default = <<>>

\* C16: a step on an entry with the empty value for a declared boolean
\* variable succeeds as if the value were true: no error, true in the cell,
\* the name in actual.
C16_EmptyBoolIsTrue ==
    (InCall /\ Len(consumed) > 0) =>
        LET last == consumed[Len(consumed)]
            n == EntryName(last)
        IN  ( /\ n \in DOMAIN formal /\ n \notin HelpNames
              /\ formal[n].Kind = "bool"
              /\ EntryValue(last) = <<>> )
            => ( /\ err = NoErr
                 /\ store[formal[n].Cell] = TRUE
                 /\ n \in DOMAIN actual )

\* the position of the first declaration call made for the name n
DeclaredAt(n) ==
    CHOOSE i \in 1..Len(declared) :
        declared[i].name = n /\ \A j \in 1..(i - 1) : declared[j].name # n

\* C17: in a Parse call that went through its list, Set was called once for
\* each declared variable present in the list, and the calls were made in the
\* order in which the variables were declared.
C17_SetInDeclarationOrder ==
    (Returned /\ ret = NoErr) =>
        /\ \A n \in DOMAIN formal :
              Occurs(n, consumed) =>
                  Cardinality({k \in 1..Len(setCalls) : setCalls[k][1] = n}) = 1
        /\ \A k, l \in 1..Len(setCalls) :
              k < l => DeclaredAt(setCalls[k][1]) < DeclaredAt(setCalls[l][1])


\* C12: under ContinueOnError, Parse of one entry for a numeric variable returns
\* an "invalid value" error whose cause reads "parse error" when the text is
\* malformed and "value out of range" when the text is a well-formed number too
\* large for the type; the two causes are different texts, so the returned
\* error tells the two categories apart.
T_notanumber == <<"n", "o", "t", "a", "n", "u", "m", "b", "e", "r">>
T_TooLarge == <<"9", "9", "9", "9", "9", "9", "9", "9", "9", "9", "9", "9", "9", "9", "9", "9", "9", "9", "9", "9">>
T_TooLargeFloat == <<"1", "e", "9", "9", "9">>
IntegerKinds == {"int", "int64", "uint", "uint64"}
Malformed(kind, t) == t = T_notanumber \/ t = <<>> \/ t = T_true
TooLarge(kind, t) ==
    \/ kind \in IntegerKinds /\ t = T_TooLarge
    \/ kind = "float64" /\ t = T_TooLargeFloat

C12_ParseAndRangeDistinct ==
    (/\ Returned
     /\ errorHandling = ContinueOnError
     /\ Len(consumed) = 1
     /\ T_V \in DOMAIN formal
     /\ formal[T_V].Kind \in IntegerKinds \cup {"float64"})
    => /\ Malformed(formal[T_V].Kind, EntryValue(consumed[1]))
          => /\ ret.err = "invalid value"
             /\ ret.cause = "parse error"
       /\ TooLarge(formal[T_V].Kind, EntryValue(consumed[1]))
          => /\ ret.err = "invalid value"
             /\ ret.cause = "value out of range"
             /\ ret.cause # "parse error"

C12_Witness ==
    /\ Returned
    /\ errorHandling = ContinueOnError
    /\ T_V \in DOMAIN formal
    /\ formal[T_V].Kind = "uint64"
    /\ consumed = <<T_V \o <<"=">> \o T_TooLarge>>
    /\ ret.err = "invalid value"
    /\ ret.cause = "value out of range"


\* C18: a TextVar call whose default has the same type as p, the first
\* declaration of the program, declares the variable without fault: the
\* program keeps running and the name is declared.
C18_SameTypeTextVarDeclares ==
    (/\ Len(declared) = 1
     /\ declared[1].kind = "text"
     /\ KindOf(declared[1].ptype) = "ptr"
     /\ declared[1].value = declared[1].ptype)
    => /\ halt = Running
       /\ T_V \in DOMAIN formal


\* a returned Parse call whose one entry was V=s, s being what String() gave
\* for the value V held when the call began, V having been set before
Reparsed ==
    /\ Returned
    /\ Len(consumed) = 1
    /\ T_V \in DOMAIN formal
    /\ T_V \in DOMAIN before.actual
    /\ consumed[1] = T_V \o <<"=">> \o
                      ValueString(formal[T_V].Kind, before.store[formal[T_V].Cell])

\* C19 as stated: for every declared kind, Set of the rendering of a value that
\* Set stored succeeds and leaves the stored value as it was.
C19_ReparseEveryKind ==
    Reparsed => (ret = NoErr /\ store = before.store)

\* C19, amended: for the kinds that hold a value (bool, int, int64, uint,
\* uint64, string, float64, duration), Set of the rendering of a value that Set
\* stored succeeds, leaves the stored value as it was, and so leaves the
\* rendering as it was.
ValueKinds == {"bool", "int", "int64", "uint", "uint64", "string", "float64", "duration"}

C19_ReparseValueKinds ==
    (Reparsed /\ formal[T_V].Kind \in ValueKinds)
    => /\ ret = NoErr
       /\ store = before.store
       /\ Len(setCalls) = 1

C19_Witness ==
    /\ Reparsed
    /\ formal[T_V].Kind = "duration"
    /\ before.store[formal[T_V].Cell] = 5400
    /\ consumed = << <<"V", "=", "1", "h", "3", "0", "m", "0", "s">> >>
    /\ ret = NoErr
    /\ store = before.store


\* n copies of a sequence of lines, one after the other
RECURSIVE Times(_, _)
Times(lines, n) == IF n = 0 THEN <<>> ELSE lines \o Times(lines, n - 1)

\* what the callback that f had when Link was last called writes: the bottom
\* function's line, then e's usage once for every earlier Link
PreviousFlagUsage == <<[line |-> flagUsage[1]]>> \o Times(usage, Len(flagUsage) - 2)

\* C20: after Link(f, e), a call of f.Usage writes what the callback f had at
\* the time of Link writes (that of f.PrintDefaults when f had none), once, and
\* then what e's usage renderer writes, once, in that order; e's renderer is
\* e.Usage when it is set at the time of the call and the default listing
\* otherwise.
C20_LinkedUsageOrder ==
    (pc = "usage" /\ Len(flagUsage) >= 2)
    => /\ flagUsage[1] \in {"flag callback", "PrintDefaults"}
       /\ output = PreviousFlagUsage \o usage
       /\ output[1].line = flagUsage[1]
       /\ usageCalls = Len(flagUsage) - 1
       /\ Len(flagUsage) = 2 => Len(output) = 1 + Len(usage)
       /\ Usage = "nil"
          => /\ output[Len(PreviousFlagUsage) + 1].line = "Environment:"
             /\ Len(output) = Len(PreviousFlagUsage) + 1 + Cardinality(DOMAIN formal)
       /\ Usage # "nil"
          => /\ output[Len(output)].line = "Usage callback"
             /\ Len(output) = Len(PreviousFlagUsage) + 1

C20_Witness ==
    /\ pc = "usage"
    /\ flagUsage = <<"flag callback", "link">>
    /\ Usage = "callback"
    /\ DOMAIN formal = {<<"B">>}
    /\ output = <<[line |-> "flag callback"], [line |-> "Usage callback"]>>
    /\ usageCalls = 1


\* the declared names whose Value panics in String() when zero
ZeroPanicNames == {n \in DOMAIN formal : formal[n].Kind = "custom"}

\* C21: PrintDefaults writes a line for every declared variable, names
\* ascending, also when the zero Value of some of them panics in String();
\* the line of such a variable has no default; the errors come after the last
\* variable line, behind one empty line, one for each such variable.
C21_ZeroPanicsCollected ==
    pc = "PrintDefaults" =>
        /\ Len(output) = Cardinality(DOMAIN formal)
                          + (IF ZeroPanicNames = {} THEN 0 ELSE 1 + Cardinality(ZeroPanicNames))
        /\ \A i \in 1..Cardinality(DOMAIN formal) : output[i].line = "variable"
        /\ {output[i].name : i \in 1..Cardinality(DOMAIN formal)} = DOMAIN formal
        /\ \A i \in 1..Cardinality(DOMAIN formal) :
              output[i].name \in ZeroPanicNames => output[i].default = <<>>
        /\ ZeroPanicNames # {} =>
              /\ output[Cardinality(DOMAIN formal) + 1].line = ""
              /\ \A i \in (Cardinality(DOMAIN formal) + 2)..Len(output) :
                    /\ output[i].line = "panic calling String method on zero"
                    /\ output[i].name \in ZeroPanicNames
              /\ \A i, j \in (Cardinality(DOMAIN formal) + 2)..Len(output) :
                    i # j => output[i].name # output[j].name

C21_Witness ==
    /\ pc = "PrintDefaults"
    /\ DOMAIN formal = { <<"A">>, <<"B">>, T_HELP }
    /\ ZeroPanicNames = { <<"A">> }
    /\ formal[<<"B">>].Kind = "string"
    /\ Len(output) = 5
    /\ output[1].name = <<"A">> /\ output[1].default = <<>>
    /\ output[3].name = T_HELP
    /\ output[5].name = <<"A">>


\* the positions of the back quotes of a text; a text without position i
QuotePositions(d) == {i \in 1..Len(d) : d[i] = BackQuote}
WithoutIndex(d, i) == SubSeq(d, 1, i - 1) \o SubSeq(d, i + 1, Len(d))
Least(S) == CHOOSE i \in S : \A k \in S : i <= k

\* the fixed guesses, kind by kind
GuessOfKind ==
    [k \in Kinds |->
        IF k = "bool" THEN "boolean"
        ELSE IF k = "duration" THEN "duration"
        ELSE IF k = "float64" THEN "float"
        ELSE IF k \in {"int", "int64"} THEN "int"
        ELSE IF k = "string" THEN "string"
        ELSE IF k \in {"uint", "uint64"} THEN "uint"
        ELSE "value"]

\* the name and description UnquoteUsage is to give for a Spec
Unquoted(spec, name, description) ==
    IF Cardinality(QuotePositions(spec.Description)) >= 2
    THEN LET i == Least(QuotePositions(spec.Description))
             j == Least(QuotePositions(spec.Description) \ {i})
         IN  /\ name = SubSeq(spec.Description, i + 1, j - 1)
             /\ description = WithoutIndex(WithoutIndex(spec.Description, j), i)
    ELSE /\ name = GuessOfKind[spec.Kind]
         /\ description = spec.Description

\* C22: for the declared variable, UnquoteUsage gives the text between the
\* first two back quotes and the description without those two, or, with
\* fewer than two back quotes, the guess for the kind and the description
\* unchanged; the lines of a usage listing carry that name and description.
C22_UnquoteUsage ==
    /\ \A n \in DOMAIN formal :
          Unquoted(formal[n], UnquoteUsage(formal[n]).name, UnquoteUsage(formal[n]).description)
    /\ \A i \in 1..Len(output) :
          output[i].line = "variable" =>
              Unquoted(formal[output[i].name], output[i].type, output[i].usage)

C22_Witness ==
    /\ Returned
    /\ T_V \in DOMAIN formal
    /\ formal[T_V].Kind = "duration"
    /\ formal[T_V].Description = <<BackQuote, "a", BackQuote, "b", BackQuote>>
    /\ \E i \in 1..Len(output) :
          /\ output[i].line = "variable"
          /\ output[i].type = <<"a">>
          /\ output[i].usage = <<"a", "b", BackQuote>>


\* the Set calls due for a list of entries: name and value of each entry whose
\* name is in the set names, in list order
RECURSIVE SetsDue(_, _)
SetsDue(list, names) ==
    IF Len(list) = 0 THEN <<>>
    ELSE (IF EntryName(Head(list)) \in names
          THEN << <<EntryName(Head(list)), EntryValue(Head(list))>> >> ELSE <<>>)
         \o SetsDue(Tail(list), names)

C24_ParseTerminates ==
    /\ [][ (pc = "Parse" /\ halt = Running /\ environment # <<>>)
           => ( /\ environment' = Tail(environment)
                /\ consumed' = Append(consumed, Head(environment)) ) ]_<<pc, environment, consumed>>
    /\ [](InCall => Len(consumed) + Len(environment) <= MaxLen)
    /\ (pc = "Parse" /\ halt = Running) ~> (pc = "return" \/ halt # Running)

C24_Witness ==
    /\ Returned
    /\ Len(consumed) = 2
    /\ environment = <<>>
    /\ ret = NoErr
    /\ setCalls # <<>>


\* Set of a kind rejects a text; the step of Parse on an entry reports an error
Rejects(kind, text) ==
    CASE kind = "bool" -> ParseBool(text).err # NoErr
      [] kind = "int" -> ParseInt(text).err # NoErr
      [] kind = "string" -> FALSE

StepFails(e) ==
    \/ EntryName(e) \in HelpNames
    \/ /\ EntryName(e) \in DOMAIN formal
       /\ Rejects(formal[EntryName(e)].Kind, EntryValue(e))

\* the entries a call consumed before its last one
ConsumedBefore == SubSeq(consumed, 1, Len(consumed) - 1)

ParsingKinds == {"bool", "int", "int64", "uint", "uint64", "float64", "duration"}

\* C26: after Parse returned the error of a failing Set under ContinueOnError,
\* the cell of the failing entry's variable holds the value it had before the
\* call, for every kind whose Set parses its text.
C26_FailedSetKeepsValue ==
    ( /\ Returned
      /\ errorHandling = ContinueOnError
      /\ Len(consumed) = 1
      /\ ret \notin {NoErr, ErrHelp}
      /\ EntryName(consumed[1]) \in DOMAIN formal
      /\ formal[EntryName(consumed[1])].Kind \in ParsingKinds )
    => store[formal[EntryName(consumed[1])].Cell]
         = before.store[formal[EntryName(consumed[1])].Cell]


\* C27: a call of IntVar that panics leaves every cell of the caller as it
\* was before the call.
C27_AbortedDeclarationKeepsCell ==
    [][ (pc = "idle" /\ halt = Running /\ halt' # Running) => store' = store ]_vars


\* no other declared variable has the cell of n
CellOfItsOwn(n) ==
    \A m \in DOMAIN formal \ {n} : formal[m].Cell # formal[n].Cell

\* C28 as stated: during and after a Parse call formal is what it was when
\* the call began, and every declared variable whose name does not occur in
\* the list holds in its cell the value it held when the call began.
C28_OnlyNamedVariablesChange ==
    InCall =>
        /\ formal = before.formal
        /\ \A n \in DOMAIN formal :
              ~Occurs(n, consumed \o environment)
                  => store[formal[n].Cell] = before.store[formal[n].Cell]

\* C28 amended: the same, for the variables whose cell no other declared
\* variable has; and no cell that no entry so far names a variable of changes.
C28_OnlyNamedCellsChange ==
    InCall =>
        /\ formal = before.formal
        /\ \A n \in DOMAIN formal :
              (CellOfItsOwn(n) /\ ~Occurs(n, consumed))
                  => store[formal[n].Cell] = before.store[formal[n].Cell]
        /\ \A p \in 1..Len(store) :
              (\A n \in DOMAIN formal : formal[n].Cell = p => ~Occurs(n, consumed))
                  => store[p] = before.store[p]

C28_Witness ==
    /\ Returned
    /\ ret = NoErr
    /\ consumed = << <<"A", "=", "1">> >>
    /\ DOMAIN formal = { <<"A">>, <<"B">> }
    /\ CellOfItsOwn(<<"B">>)
    /\ store[formal[<<"B">>].Cell] = IntOf(7)
    /\ store[formal[<<"A">>].Cell] = IntOf(1)
    /\ before.store[formal[<<"A">>].Cell] = IntOf(7)


\* C29: whatever the ErrorHandling of the registry, no entry is consumed
\* after one whose step reports an error, and a Parse call that consumed such
\* an entry does not return nil.
C29_EveryPolicyEndsTheCall ==
    InCall =>
        /\ \A i \in 1..(Len(consumed) - 1) : ~StepFails(consumed[i])
        /\ (Returned /\ \E i \in 1..Len(consumed) : StepFails(consumed[i])) => ret # NoErr


\* C30: while the process runs, the entries a Parse call consumed followed by
\* the entries it still has to consume are the list it was called with, also
\* after a callback called Parse with a list of its own and that call returned.
C30_OuterListIsItsOwn ==
    (InCall /\ halt = Running) => consumed \o environment = before.list

====
